---- MODULE Spec2Model ----
(***************************************************************************)
(* Package detail lookup of archweb (packages/views/display.py).           *)
(*                                                                         *)
(* The view `details` is a read-only function of the request key           *)
(* (name, repo, arch), the clock and the contents of the Arch, Repo,       *)
(* Package and Update tables.  Init draws the tables from bounded sets,    *)
(* the action Details serves one request and records the response          *)
(* together with the ORM queries the handler issued.                       *)
(*                                                                         *)
(* Strings are sequences of character codes, so that the case folding of   *)
(* `__iexact` / `.lower()` and the ordering of `order_by('pkgname')` are   *)
(* computed and not assumed.  Time is counted in days.                     *)
(***************************************************************************)
EXTENDS Integers, Sequences, FiniteSets, Bags, TLC

VARIABLES packages, updates, now, request, response, queries

vars == <<packages, updates, now, request, response, queries>>

---------------------------------------------------------------------------
(* Strings *)

s_blank   == << >>
s_foo     == <<102, 111, 111>>                  \* "foo"
s_foo_a   == <<102, 111, 111, 45, 97>>          \* "foo-a"
s_foo_b   == <<102, 111, 111, 45, 98>>          \* "foo-b"
s_bar     == <<98, 97, 114>>                    \* "bar"
s_Core    == <<67, 111, 114, 101>>              \* "Core"
s_core    == <<99, 111, 114, 101>>              \* "core"
s_Extra   == <<69, 120, 116, 114, 97>>          \* "Extra"
s_Testing == <<84, 101, 115, 116, 105, 110, 103>> \* "Testing"
s_nope    == <<110, 111, 112, 101>>             \* "nope"
s_x86_64  == <<120, 56, 54, 95, 54, 52>>        \* "x86_64"
s_any     == <<97, 110, 121>>                   \* "any"
s_all     == <<97, 108, 108>>                   \* "all"
s_bogus   == <<98, 111, 103, 117, 115>>         \* "bogus"
s_arch    == <<97, 114, 99, 104>>               \* "arch"
s_repo    == <<114, 101, 112, 111>>             \* "repo"
s_q       == <<113>>                            \* "q"

\* str.lower(): A-Z are mapped to a-z, every other character is kept
lower(s) == [i \in DOMAIN s |-> IF s[i] \in 65..90 THEN s[i] + 32 ELSE s[i]]

\* field__iexact=value: equality up to case
iexact(field, value) == lower(field) = lower(value)

\* a sorts strictly before b (character by character, a prefix first)
RECURSIVE StrLess(_, _)
StrLess(a, b) ==
    IF b = << >> THEN FALSE
    ELSE IF a = << >> THEN TRUE
    ELSE IF Head(a) # Head(b) THEN Head(a) < Head(b)
    ELSE StrLess(Tail(a), Tail(b))

StrLeq(a, b) == a = b \/ StrLess(a, b)

---------------------------------------------------------------------------
(* Tables *)

\* Arch rows: name (unique), agnostic; one concrete and two agnostic arches
Arch_objects ==
    { [name |-> s_x86_64, agnostic |-> FALSE],
      [name |-> s_any,    agnostic |-> TRUE],
      [name |-> s_all,    agnostic |-> TRUE] }

\* Repo rows: name (unique, also up to case), testing, staging; Extra has
\* the (testing, staging) pair of Core, Testing has another
Repo_objects ==
    { [name |-> s_Core,    testing |-> FALSE, staging |-> FALSE],
      [name |-> s_Extra,   testing |-> FALSE, staging |-> FALSE],
      [name |-> s_Testing, testing |-> TRUE,  staging |-> FALSE] }

\* the rows behind the foreign keys of a Package or Update row
ArchOf(row) == CHOOSE a \in Arch_objects : a.name = row.arch
RepoOf(row) == CHOOSE r \in Repo_objects : r.name = row.repo

---------------------------------------------------------------------------
(* Bounds and input universes: at most MaxPackages rows in the Package    *)
(* table (copies counted), at most MaxUpdates rows in the Update table,    *)
(* the request is served on day Today.                                     *)

MaxPackages == 2
MaxUpdates == 2
Today == 100

\* CUTOFF = datetime.timedelta(days=60)
CUTOFF == 60

\* Package rows: pkgname, pkgbase, repo (FK), arch (FK)
PackageRow(pkgname, pkgbase, repo, arch) ==
    [pkgname |-> pkgname, pkgbase |-> pkgbase, repo |-> repo, arch |-> arch]

\* the rows the Package table is drawn from: "foo" under every arch of Core
\* and in the two other repos, its split siblings "foo-a" and "foo-b", and
\* packages "foo" and "foo-a" built from another pkgbase
PackageRows ==
    { PackageRow(s_foo,   s_foo, s_Core,    s_x86_64),
      PackageRow(s_foo,   s_foo, s_Core,    s_any),
      PackageRow(s_foo,   s_foo, s_Core,    s_all),
      PackageRow(s_foo,   s_foo, s_Extra,   s_x86_64),
      PackageRow(s_foo,   s_foo, s_Extra,   s_any),
      PackageRow(s_foo,   s_foo, s_Testing, s_x86_64),
      PackageRow(s_foo_a, s_foo, s_Core,    s_x86_64),
      PackageRow(s_foo_a, s_foo, s_Core,    s_any),
      PackageRow(s_foo_a, s_foo, s_Extra,   s_x86_64),
      PackageRow(s_foo_b, s_foo, s_Core,    s_x86_64),
      PackageRow(s_foo_b, s_foo, s_Testing, s_any),
      PackageRow(s_foo_a, s_bar, s_Core,    s_x86_64),
      PackageRow(s_foo,   s_bar, s_Core,    s_any),
      PackageRow(s_foo,   s_bar, s_Core,    s_all) }

\* Update rows: pkgname, repo (FK), arch (FK), created
UpdateRow(pkgname, repo, arch, created) ==
    [pkgname |-> pkgname, repo |-> repo, arch |-> arch, created |-> created]

\* the rows the Update table is drawn from; the created days lie after, on
\* and before the day `today - CUTOFF`
UpdateRows(today) ==
    { UpdateRow(s_foo, s_Core,  s_x86_64, today - 10),
      UpdateRow(s_foo, s_Core,  s_x86_64, today - CUTOFF),
      UpdateRow(s_foo, s_Core,  s_x86_64, today - CUTOFF - 30),
      UpdateRow(s_foo, s_Core,  s_any,    today - 10),
      UpdateRow(s_foo, s_Core,  s_any,    today - 20),
      UpdateRow(s_foo, s_Core,  s_all,    today - CUTOFF - 1),
      UpdateRow(s_foo, s_Extra, s_x86_64, today - 10),
      UpdateRow(s_bar, s_Core,  s_x86_64, today - 10) }

\* the subsets of U with at most k elements
RECURSIVE SubsetsUpTo(_, _)
SubsetsUpTo(U, k) ==
    IF k = 0 THEN { {} }
    ELSE LET S == SubsetsUpTo(U, k - 1)
         IN  S \cup { s \cup {x} : s \in S, x \in U }

\* the bags over U with at most k elements, copies counted
BagsUpTo(U, k) ==
    { b \in UNION { [S -> 1..k] : S \in SubsetsUpTo(U, k) } :
        BagCardinality(b) <= k }

\* the bag B cut down to the given rows, with their copies
Rows(B, rows) == [r \in rows |-> B[r]]

\* request path components of /packages/<repo>/<arch>/<name>/
KeyNames == {s_blank, s_foo}
KeyRepos == {s_blank, s_core, s_nope}
KeyArchs == {s_blank, s_x86_64, s_any, s_bogus}

---------------------------------------------------------------------------
(* Responses *)

None == [kind |-> "None"]

\* direct_to_template(request, 'packages/details.html', {'pkg': pkg})
DetailsPage(pkg) == [kind |-> "Found", pkg |-> pkg]

\* redirect(pkgs[0], permanent=True)
PermanentRedirect(pkg) == [kind |-> "RedirectCanonical", pkg |-> pkg]

\* direct_to_template(request, 'packages/packages_list.html', context)
PackagesList(name, arch, pkgs) ==
    [kind |-> "SplitPackageListing", name |-> name, arch |-> arch,
     packages |-> pkgs]

\* render(request, 'packages/removed.html', {'update': match}, status=410)
RemovedPage(update) == [kind |-> "RecentlyRemoved", update |-> update]

\* redirect("/packages/?%s" % urlencode(pkg_data))
SearchRedirect(pkg_data) == [kind |-> "SearchFallback", query |-> pkg_data]

\* raise Http404; `model` names the table when get_object_or_404 raised it
\* ('No <model> matches the given query.'), and is blank for the bare raise
Http404(model) == [kind |-> "Http404", model |-> model]

\* QuerySet.get() found more than one row
MultipleObjectsReturned == [kind |-> "MultipleObjectsReturned"]

Returned(ret, q) == [ret |-> ret, q |-> q]

---------------------------------------------------------------------------
(* ORM helpers *)

\* faulty variant: an unknown arch name is taken for the agnostic arches
ArchByName_or_agnostic(arch) ==
    IF \E a \in Arch_objects : a.name = arch
    THEN { a \in Arch_objects : a.name = arch }
    ELSE { a \in Arch_objects : a.agnostic }

\* get_object_or_404(Arch, name=arch): the rows that match
ArchByName(arch) == { a \in Arch_objects : a.name = arch }

\* Arch.objects.filter(agnostic=True)
AgnosticArches == { a \in Arch_objects : a.agnostic }

\* arches = [ arch ]; arches.extend(Arch.objects.filter(agnostic=True))
ArchesFor(arch_obj) == {arch_obj} \cup AgnosticArches

\* get_object_or_404(Repo, name__iexact=repo): the rows that match
RepoByName(repo) == { r \in Repo_objects : iexact(r.name, repo) }

\* Update.Meta.get_latest_by, the field latest() orders by
get_latest_by(update) == update.created

\* faulty variant: the rows in any order
order_by_nothing(pkgs) ==
    LET n == BagCardinality(pkgs)
    IN  { s \in [1..n -> DOMAIN pkgs] :
            \A r \in DOMAIN pkgs :
                Cardinality({ i \in 1..n : s[i] = r }) = pkgs[r] }

\* .order_by('pkgname'): every sequence that holds the rows of the bag, each
\* as often as the bag does, in ascending pkgname order; rows with equal
\* pkgname come in an order the database chooses
order_by_pkgname(pkgs) ==
    LET n == BagCardinality(pkgs)
    IN  { s \in [1..n -> DOMAIN pkgs] :
            /\ \A r \in DOMAIN pkgs :
                   Cardinality({ i \in 1..n : s[i] = r }) = pkgs[r]
            /\ \A i \in 1..n : \A j \in 1..n :
                   i < j => StrLeq(s[i].pkgname, s[j].pkgname) }

---------------------------------------------------------------------------
(* split_package_details *)

\* .filter(pkgbase=name, repo__testing=repo.testing,
\*         repo__staging=repo.staging, arch__in=arches)
split_filter(pkg, name, repo_obj, arches) ==
    /\ pkg.pkgbase = name
    /\ RepoOf(pkg).testing = repo_obj.testing
    /\ RepoOf(pkg).staging = repo_obj.staging
    /\ ArchOf(pkg) \in arches

\* faulty variant: the check of the given repo is dropped
in_any_repo(pkgs, repo_obj) == DOMAIN pkgs # {}

\* any(True for pkg in pkgs if pkg.repo == repo)
in_given_repo(pkgs, repo_obj) ==
    \E pkg \in DOMAIN pkgs : RepoOf(pkg) = repo_obj

split_package_details(name, repo, arch) ==
    IF ArchByName(arch) = {}
    THEN { Returned(Http404("Arch"), <<"Arch.get">>) }
    ELSE
    LET arch_obj == CHOOSE a \in ArchByName(arch) : TRUE
        arches   == ArchesFor(arch_obj)
        q3       == <<"Arch.get", "Arch.filter", "Repo.get">>
    IN  IF RepoByName(repo) = {}
        THEN { Returned(Http404("Repo"), q3) }
        ELSE IF Cardinality(RepoByName(repo)) > 1
        THEN { Returned(MultipleObjectsReturned, q3) }
        ELSE
        LET repo_obj == CHOOSE r \in RepoByName(repo) : TRUE
            pkgs == Rows(packages,
                         { pkg \in DOMAIN packages :
                             split_filter(pkg, name, repo_obj, arches) })
            q4   == Append(q3, "Package.filter")
        IN  IF BagCardinality(pkgs) = 0
            THEN { Returned(None, q4) }
            ELSE IF ~ in_given_repo(pkgs, repo_obj)
            THEN { Returned(None, q4) }
            ELSE { Returned(PackagesList(name, arch_obj, ordered), q4) :
                     ordered \in order_by_pkgname(pkgs) }

---------------------------------------------------------------------------
(* recently_removed_package *)

\* .filter(pkgname=name, repo__name__iexact=repo, arch__in=arches)
update_filter(update, name, repo, arches) ==
    /\ update.pkgname = name
    /\ iexact(RepoOf(update).name, repo)
    /\ ArchOf(update) \in arches

\* faulty variant: created__gt in place of created__gte
after_cutoff(update, cutoff) ==
    cutoff # << >> => update.created > now - cutoff[1]

\* when = now() - cutoff; match.filter(created__gte=when); cutoff is << >>
\* for None and <<days>> otherwise
within_cutoff(update, cutoff) ==
    cutoff # << >> => update.created >= now - cutoff[1]

\* faulty variant: earliest() in place of latest()
earliest(match) ==
    { u \in match :
        \A v \in match : get_latest_by(u) <= get_latest_by(v) }

\* match.latest(): the rows no other row of match is later than
latest(match) ==
    { u \in match :
        \A v \in match : get_latest_by(v) <= get_latest_by(u) }

recently_removed_package(name, repo, arch, cutoff) ==
    IF ArchByName(arch) = {}
    THEN { Returned(Http404("Arch"), <<"Arch.get">>) }
    ELSE
    LET arch_obj == CHOOSE a \in ArchByName(arch) : TRUE
        arches   == ArchesFor(arch_obj)
        match    == { u \in updates :
                        /\ update_filter(u, name, repo, arches)
                        /\ within_cutoff(u, cutoff) }
        q        == <<"Arch.get", "Arch.filter", "Update.latest">>
    IN  IF match = {}
        THEN { Returned(None, q) }
        ELSE { Returned(RemovedPage(u), q) : u \in latest(match) }

---------------------------------------------------------------------------
(* details *)

\* faulty variant: the repo is left out of the completeness test
name_and_arch_given(name, repo, arch) ==
    name # s_blank /\ arch # s_blank

\* all([name, repo, arch])
all_given(name, repo, arch) ==
    name # s_blank /\ repo # s_blank /\ arch # s_blank

\* faulty variant: repo__name in place of repo__name__iexact
exact_filter_case_sensitive(pkg, name, repo, arch) ==
    /\ pkg.pkgname = name
    /\ RepoOf(pkg).name = repo
    /\ ArchOf(pkg).name = arch

\* faulty variant: only the column is folded to lower case, not the value
exact_filter_lowered_column(pkg, name, repo, arch) ==
    /\ pkg.pkgname = name
    /\ lower(RepoOf(pkg).name) = repo
    /\ ArchOf(pkg).name = arch

\* .get(pkgname=name, repo__name__iexact=repo, arch__name=arch)
exact_filter(pkg, name, repo, arch) ==
    /\ pkg.pkgname = name
    /\ iexact(RepoOf(pkg).name, repo)
    /\ ArchOf(pkg).name = arch

\* faulty variant: the repo is left out of the filter
agnostic_filter_any_repo(pkg, name, repo) ==
    /\ pkg.pkgname = name
    /\ ArchOf(pkg).agnostic

\* .filter(pkgname=name, repo__name__iexact=repo, arch__agnostic=True)
agnostic_filter(pkg, name, repo) ==
    /\ pkg.pkgname = name
    /\ iexact(RepoOf(pkg).name, repo)
    /\ ArchOf(pkg).agnostic

\* faulty variant: len(pkgs) >= 1
some_option(pkgs) == BagCardinality(pkgs) >= 1

\* len(pkgs) == 1
single_option(pkgs) == BagCardinality(pkgs) = 1

\* pkg_data, with only the non-blank values kept
pkg_data(name, repo, arch) ==
    SelectSeq(<< <<s_arch, lower(arch)>>, <<s_repo, lower(repo)>>,
                 <<s_q, name>> >>,
              LAMBDA xy : xy[2] # s_blank)

\* ret = split_package_details(...); if ret is None:
\*     ret = recently_removed_package(...); if ret is None: raise Http404
fallbacks(name, repo, arch, q) ==
    UNION { IF s.ret # None
            THEN { Returned(s.ret, q \o s.q) }
            ELSE { Returned(IF r.ret # None THEN r.ret ELSE Http404(""),
                            q \o s.q \o r.q) :
                     r \in recently_removed_package(name, repo, arch,
                                                    <<CUTOFF>>) } :
            s \in split_package_details(name, repo, arch) }

details(name, repo, arch) ==
    IF ~ all_given(name, repo, arch)
    THEN { Returned(SearchRedirect(pkg_data(name, repo, arch)), << >>) }
    ELSE
    LET found == Rows(packages,
                      { pkg \in DOMAIN packages :
                          exact_filter(pkg, name, repo, arch) })
        q1    == <<"Package.get">>
    IN  IF BagCardinality(found) = 1
        THEN { Returned(DetailsPage(pkg), q1) : pkg \in DOMAIN found }
        ELSE IF BagCardinality(found) > 1
        THEN { Returned(MultipleObjectsReturned, q1) }
        ELSE IF ArchByName(arch) = {}
        THEN { Returned(Http404("Arch"), Append(q1, "Arch.get")) }
        ELSE
        LET arch_obj == CHOOSE a \in ArchByName(arch) : TRUE
            pkgs == Rows(packages,
                         { pkg \in DOMAIN packages :
                             agnostic_filter(pkg, name, repo) })
            q2   == Append(q1, "Arch.get")
            q3   == Append(q2, "Package.filter")
        IN  IF arch_obj.agnostic
            THEN fallbacks(name, repo, arch, q2)
            ELSE IF single_option(pkgs)
            THEN { Returned(PermanentRedirect(pkg), q3) : pkg \in DOMAIN pkgs }
            ELSE fallbacks(name, repo, arch, q3)

---------------------------------------------------------------------------
(* Specification *)

NoRequest == [name |-> s_blank, repo |-> s_blank, arch |-> s_blank,
              served |-> FALSE]

Init ==
    /\ now = Today
    /\ packages \in BagsUpTo(PackageRows, MaxPackages)
    /\ updates \in SubsetsUpTo(UpdateRows(Today), MaxUpdates)
    /\ request = NoRequest
    /\ response = None
    /\ queries = << >>

\* one request to the details view
Details(name, repo, arch) ==
    /\ ~ request.served
    /\ \E r \in details(name, repo, arch) :
          /\ response' = r.ret
          /\ queries' = r.q
    /\ request' = [name |-> name, repo |-> repo, arch |-> arch,
                   served |-> TRUE]
    /\ UNCHANGED <<packages, updates, now>>

Next ==
    \E name \in KeyNames, repo \in KeyRepos, arch \in KeyArchs :
        Details(name, repo, arch)

Spec == Init /\ [][Next]_vars

---------------------------------------------------------------------------
(* Vocabulary of the properties, read off the tables and the request *)

Served == request.served

KeyComplete ==
    request.name # s_blank /\ request.repo # s_blank /\ request.arch # s_blank

\* the Architecture record the requested arch names, if any
RequestedArchs == { a \in Arch_objects : a.name = request.arch }
ArchResolves == RequestedArchs # {}
ArchIsAgnostic == \E a \in RequestedArchs : a.agnostic

AgnosticNames == { a.name : a \in { x \in Arch_objects : x.agnostic } }

\* the Repo record the requested repo names, up to case
RequestedRepos == { r \in Repo_objects : lower(r.name) = lower(request.repo) }

\* current packages with the key's name, repo (up to case) and arch
ExactRows ==
    { p \in DOMAIN packages :
        /\ p.pkgname = request.name
        /\ lower(p.repo) = lower(request.repo)
        /\ p.arch = request.arch }

\* current packages with the key's name and repo under an agnostic arch
AgnosticRows ==
    { p \in DOMAIN packages :
        /\ p.pkgname = request.name
        /\ lower(p.repo) = lower(request.repo)
        /\ p.arch \in AgnosticNames }

\* current packages built from the pkgbase the key names, in a repo with the
\* (testing, staging) pair of the requested repo, under the requested arch
\* or an agnostic one
SplitRows ==
    { p \in DOMAIN packages :
        /\ p.pkgbase = request.name
        /\ \E r \in RequestedRepos : \E pr \in Repo_objects :
              /\ pr.name = p.repo
              /\ pr.testing = r.testing
              /\ pr.staging = r.staging
        /\ p.arch \in {request.arch} \cup AgnosticNames }

SplitRowsInRepo == { p \in SplitRows : lower(p.repo) = lower(request.repo) }

\* how many rows of the Package table are in the set rows
Copies(rows) == BagCardinality([p \in rows |-> packages[p]])

Stage1Misses == Served /\ KeyComplete /\ Copies(ExactRows) = 0

\* Stage 2 ran and did not redirect
Stage2Misses ==
    /\ Stage1Misses
    /\ ArchResolves
    /\ ArchIsAgnostic \/ Copies(AgnosticRows) # 1

\* Stage 3 ran and produced no listing
Stage3Misses ==
    /\ Stage2Misses
    /\ RequestedRepos # {}
    /\ SplitRowsInRepo = {}

\* history records of the key's name and repo (up to case)
HistoryRows ==
    { u \in updates :
        /\ u.pkgname = request.name
        /\ lower(u.repo) = lower(request.repo) }

SameArchHistory == { u \in HistoryRows : u.arch = request.arch }
AnyArchHistory ==
    { u \in HistoryRows : u.arch \in {request.arch} \cup AgnosticNames }

Recent(rows) == { u \in rows : u.created >= now - CUTOFF }

NotFound == Http404("")
InvalidArchitecture == Http404("Arch")

---------------------------------------------------------------------------
(* Properties *)

\* C1: a request in which name, repo or arch is blank is answered with the
\* search redirect, and the handler issues no query at all, whatever the
\* tables hold.
C1_BlankKeyFallsBack ==
    (Served /\ ~ KeyComplete) =>
        /\ response.kind = "SearchFallback"
        /\ queries = << >>

\* a request with name and arch but no repo, while the tables hold the
\* package and a history record for it
C1_Witness ==
    /\ Served
    /\ request.name = s_foo /\ request.repo = s_blank
    /\ request.arch = s_x86_64
    /\ PackageRow(s_foo, s_foo, s_Core, s_x86_64) \in DOMAIN packages
    /\ updates # {}
    /\ response.kind = "SearchFallback"

\* C2: a complete key that exactly one current package matches (pkgname,
\* repo up to case, arch name) is answered with the details page of that
\* package, whatever agnostic packages, split siblings or history exist.
C2_ExactMatchFound ==
    (Served /\ KeyComplete /\ Copies(ExactRows) = 1) =>
        \E p \in ExactRows : response = DetailsPage(p)

\* the exact match is found although an agnostic package of the same name
\* and repo and a matching history record exist as well
C2_Witness ==
    /\ Served /\ KeyComplete
    /\ request.arch = s_x86_64
    /\ Copies(ExactRows) = 1
    /\ AgnosticRows # {}
    /\ Recent(AnyArchHistory) # {}
    /\ response.kind = "Found"

\* C3: when the requested arch exists and is not agnostic, no package
\* matches the key exactly and exactly one package of this name and repo
\* has an agnostic arch, the answer is the permanent redirect to that
\* package.
C3_AgnosticRedirect ==
    (/\ Stage1Misses
     /\ ArchResolves /\ ~ ArchIsAgnostic
     /\ Copies(AgnosticRows) = 1) =>
        \E p \in AgnosticRows : response = PermanentRedirect(p)

\* the redirect is issued while a package of the same name under an
\* agnostic arch sits in another repo
C3_Witness ==
    /\ Served
    /\ request.arch = s_x86_64
    /\ response.kind = "RedirectCanonical"
    /\ response.pkg.arch = s_any
    /\ BagCardinality(packages) = 2
    /\ \E p \in DOMAIN packages :
          p.pkgname = s_foo /\ p.repo = s_Extra /\ p.arch = s_any

\* two or more packages of the key's name and repo under distinct agnostic
\* arches, and no exact match
C4_Ambiguous ==
    /\ Stage1Misses
    /\ \E p1 \in AgnosticRows : \E p2 \in AgnosticRows : p1.arch # p2.arch

\* C4 as stated: in the ambiguous case the answer is a split listing, a
\* removed page or not-found.
C4_Original ==
    C4_Ambiguous =>
        \/ response.kind \in {"SplitPackageListing", "RecentlyRemoved"}
        \/ response = NotFound

\* C4, amended: in the ambiguous case the answer is never the redirect; it
\* is a split listing, a removed page or not-found when the requested arch
\* resolves, and the invalid-architecture error when it does not.
C4_AmbiguousNeverRedirects ==
    C4_Ambiguous =>
        /\ response.kind # "RedirectCanonical"
        /\ IF ArchResolves
           THEN \/ response.kind \in {"SplitPackageListing", "RecentlyRemoved"}
                \/ response = NotFound
           ELSE response = InvalidArchitecture

\* two agnostic packages that are no split match: the lookup falls through
\* to the history
C4_Witness ==
    /\ C4_Ambiguous
    /\ request.arch = s_x86_64
    /\ response.kind = "RecentlyRemoved"

\* the listing holds exactly the rows of the bag, in ascending pkgname order
ListsAscending(listing, rows) ==
    /\ \A p \in rows :
          Cardinality({ i \in DOMAIN listing : listing[i] = p }) = packages[p]
    /\ \A i \in DOMAIN listing : listing[i] \in rows
    /\ \A i \in DOMAIN listing : \A j \in DOMAIN listing :
          i < j => ~ StrLess(listing[j].pkgname, listing[i].pkgname)

\* C5: when stages 1 and 2 miss and the split candidates are non-empty with
\* at least one in the requested repo, the answer is the split listing of
\* all the candidates in ascending pkgname order.
C5_SplitListing ==
    (Stage2Misses /\ SplitRowsInRepo # {}) =>
        /\ response.kind = "SplitPackageListing"
        /\ ListsAscending(response.packages, SplitRows)

\* a listing of two siblings of different name, one of them in another repo
\* of the same scope
C5_Witness ==
    /\ Stage2Misses
    /\ response.kind = "SplitPackageListing"
    /\ Len(response.packages) = 2
    /\ response.packages[1].pkgname # response.packages[2].pkgname
    /\ \E i \in 1..2 : response.packages[i].repo = s_Extra

\* no current package of the key's name and repo under any arch, and no
\* split match
C6_NothingCurrent ==
    /\ Served /\ KeyComplete
    /\ \A p \in DOMAIN packages :
          ~ (p.pkgname = request.name /\ lower(p.repo) = lower(request.repo))
    /\ SplitRowsInRepo = {}

\* C6 as stated: with nothing current, a history record of the same
\* pkgname, repo and arch within the cutoff is returned on the removed page,
\* and when the only such records are older the answer is not-found.
C6_Original ==
    C6_NothingCurrent =>
        /\ Recent(SameArchHistory) # {} =>
              /\ response.kind = "RecentlyRemoved"
              /\ response.update \in Recent(SameArchHistory)
        /\ (SameArchHistory # {} /\ Recent(SameArchHistory) = {}) =>
              response = NotFound

\* C6, amended: when stages 1 to 3 yield nothing, a history record of the
\* same pkgname and repo (up to case) under the requested arch or an
\* agnostic arch, created on or after now - CUTOFF, makes the answer the
\* removed page with such a record; when every such record is older than
\* the cutoff the answer is not-found.
C6_RecentlyRemoved ==
    Stage3Misses =>
        /\ Recent(AnyArchHistory) # {} =>
              /\ response.kind = "RecentlyRemoved"
              /\ response.update \in Recent(AnyArchHistory)
        /\ Recent(AnyArchHistory) = {} => response = NotFound

\* the removed page for a record created exactly CUTOFF days ago, next to a
\* record that is too old
C6_Witness ==
    /\ Stage3Misses
    /\ response.kind = "RecentlyRemoved"
    /\ response.update.created = now - CUTOFF
    /\ \E u \in AnyArchHistory : u.created < now - CUTOFF

\* C7 as stated: an arch name that resolves to no Architecture record
\* always yields the invalid-architecture error.
C7_Original ==
    (Served /\ request.arch # s_blank /\ ~ ArchResolves) =>
        response = InvalidArchitecture

\* C7, amended: for a key with name, repo and arch all non-blank, an arch
\* name that resolves to no Architecture record yields the
\* invalid-architecture error, which is neither not-found nor a success,
\* even when split-package or history data of the name and repo exists.
C7_InvalidArchitecture ==
    (Served /\ KeyComplete /\ ~ ArchResolves) =>
        /\ response = InvalidArchitecture
        /\ response # NotFound
        /\ response.kind \notin {"Found", "RedirectCanonical",
                                 "SplitPackageListing", "RecentlyRemoved",
                                 "SearchFallback"}

\* an unknown arch is rejected while a split sibling under an agnostic arch
\* and a recent history record under an agnostic arch exist
C7_Witness ==
    /\ Served /\ KeyComplete
    /\ request.arch = s_bogus
    /\ SplitRowsInRepo # {}
    /\ Recent(AnyArchHistory) # {}
    /\ response = InvalidArchitecture

\* C8: when the answer is the details page of package p, a request for p's
\* own pkgname, repo name and arch name is answered with the details page
\* of p again.
C8_FoundRoundTrip ==
    (Served /\ response.kind = "Found") =>
        \A r \in details(response.pkg.pkgname,
                         RepoOf(response.pkg).name,
                         ArchOf(response.pkg).name) :
            r.ret = DetailsPage(response.pkg)

\* a package found through a repo name spelled in another case than its own
C8_Witness ==
    /\ Served
    /\ response.kind = "Found"
    /\ request.repo # response.pkg.repo
    /\ BagCardinality(packages) = 2

\* C9: a split listing always holds a package of the requested repo; when
\* the split candidates all sit in other repos of the same scope, the
\* lookup falls through to stage 4.
C9_ListingInRequestedRepo ==
    /\ (Served /\ response.kind = "SplitPackageListing") =>
          \E i \in DOMAIN response.packages :
              \E r \in RequestedRepos : response.packages[i].repo = r.name
    /\ (Stage2Misses /\ SplitRows # {} /\ SplitRowsInRepo = {}) =>
          \/ response.kind = "RecentlyRemoved"
          \/ response = NotFound

\* split candidates only in another repo of the same scope: the removed
\* page is served instead of a listing
C9_Witness ==
    /\ Stage2Misses
    /\ SplitRows # {} /\ SplitRowsInRepo = {}
    /\ response.kind = "RecentlyRemoved"

\* C10: when stage 4 is reached and several history records match, the
\* record on the removed page is a match no other match is later than.
C10_LatestRecord ==
    (Stage3Misses /\ Cardinality(Recent(AnyArchHistory)) >= 2) =>
        /\ response.kind = "RecentlyRemoved"
        /\ response.update \in Recent(AnyArchHistory)
        /\ \A u \in Recent(AnyArchHistory) :
              u.created <= response.update.created

\* two matches of different age, the later one under an agnostic arch
C10_Witness ==
    /\ Stage3Misses
    /\ request.arch = s_x86_64
    /\ response.kind = "RecentlyRemoved"
    /\ response.update.arch = s_any
    /\ \E u \in Recent(AnyArchHistory) :
          u.created < response.update.created

====
